---- MODULE Spec2Model ----
(***************************************************************************)
(* A model of mkidpipeline/hdf/binprocessor.c: extract_photons and the     *)
(* routines it calls (FixOverflowTimestamps, SortPhotonTables,             *)
(* ParseBeamMapFile, InitializeBeamMap, ParseToMem).                       *)
(*                                                                         *)
(* Representation notes.                                                   *)
(*  - TLC integers are 32 bits wide.  The 36-bit header timestamp is kept  *)
(*    as a record [hi, lo] standing for hi * 2^24 + lo (lo < 2^24): every  *)
(*    power of two the code's arithmetic wraps at (2^31, 2^32, 2^36) is a  *)
(*    multiple of 2^24, so the wrap-arounds act on hi alone.               *)
(*  - A photon is [resID, timestamp]; the floating-point fields wvl, wSpec *)
(*    and wNoise are written once and never read by the code, and are left *)
(*    out.                                                                 *)
(*  - A memory error (a write past a buffer, a read of an uninitialised    *)
(*    local, a free of a pointer that was never set) is recorded in ub;    *)
(*    from then on the run may continue or stop at any step (Crash).       *)
(***************************************************************************)
EXTENDS Integers, Sequences, FiniteSets, TLC

\* ------------------------------------------------------------------------
\* Program constants

TSOFFS2017 == 1483228800
TSOFFS == 1514764800
CHUNK == 2500
GROWAT == 2498
PACKETCAP == 808 * 16
HDRMARK == 255
FUDGE == 3
PERIOD == 1048576
TICKS == 2000
MAXFILES == 1800
\* (uint32_t)(-1), the resID no beam-map line carries; written -1 here
beamMapInitVal == -1

\* 2^24, the split point of a [hi, lo] timestamp, and the 36-bit field's hi range
T24 == 2^24
HI36 == 2^12
\* 2000 * 1048576 = 125 * 2^24: one wrap period in units of 2^24 ticks
WRAPHI == (TICKS * PERIOD) \div T24

\* ------------------------------------------------------------------------
\* Bounds of the model

bmap_ncol == 2
bmap_nrow == 1
StartSec == 10
MaxWords == 5
MaxBeamLines == 2
OutCapacity == 1
MaxSortLen == 4
MaxSortTs == 2
MaxBulkPackets == 5

\* ------------------------------------------------------------------------
\* 64-bit words of a .bin file, seen through struct hdrpacket and
\* struct datapacket (bit fields allocated from bit 0 upwards after the
\* byte swap: hdr = timestamp:36 frame:12 roach:8 start:8,
\* data = baseline:17 wvl:18 timestamp:9 ycoord:10 xcoord:10).

Hdr(ts) == [start |-> HDRMARK, roach |-> 0, frame |-> 0, timestamp |-> ts]

Dat(x, y, t) == [xcoord |-> x, ycoord |-> y, timestamp |-> t, wvl |-> 0, baseline |-> 0]

IsHdrWord(w) == "start" \in DOMAIN w

\* hdr->start: bits 56..63, the upper eight bits of a data word's xcoord
HdrStart(w) == IF IsHdrWord(w) THEN w.start ELSE w.xcoord \div 4

\* hdr->timestamp: bits 0..35
HdrTimestamp(w) ==
    IF IsHdrWord(w) THEN w.timestamp
    ELSE [hi |-> (w.wvl \div 128) + (w.timestamp % 2) * 2048,
          lo |-> w.baseline + (w.wvl % 128) * 131072]

\* data->xcoord: bits 54..63
DataX(w) == IF IsHdrWord(w) THEN w.start * 4 + w.roach \div 64 ELSE w.xcoord

\* data->ycoord: bits 44..53
DataY(w) == IF IsHdrWord(w) THEN (w.roach % 64) * 16 + w.frame \div 256 ELSE w.ycoord

\* data->timestamp: bits 35..43
DataT(w) ==
    IF IsHdrWord(w) THEN (w.frame % 256) * 2 + w.timestamp.hi \div 2048
    ELSE w.timestamp

\* ------------------------------------------------------------------------
\* Integer helpers

\* C's integer division: the quotient is truncated towards zero
CDiv(a, b) == IF a >= 0 THEN a \div b ELSE -((-a) \div b)

\* (uint32_t) x for x >= 0, by 16-bit halves
U32(x) == (x % 65536) + 65536 * ((x \div 65536) % 65536)

\* hdr->timestamp / 2000 on a [hi, lo] timestamp: 2^24 = 2000 * 8388 + 1216
Div2000(ts) == ts.hi * 8388 + (ts.hi * 1216 + ts.lo) \div TICKS

\* a [hi, lo] timestamp below 2^31 as an integer
TsInt(ts) == ts.hi * T24 + ts.lo

\* the 32-bit int a product of h * 2^24 wraps to, in units of 2^24
WrapInt(h) == ((h + 128) % 256) - 128

\* ------------------------------------------------------------------------
\* FixOverflowTimestamps

nWrapsOf(ts, fileNameTime, tsOffs) ==
    CDiv(fileNameTime - tsOffs - Div2000(ts) + FUDGE, PERIOD)

\* The values 2000*nWraps*1048576 can take, in units of 2^24: the product is
\* an int, and overflows it when 125 * nWraps leaves -128..127; the build then
\* either wraps it to 32 bits or has computed it in a wider register.
FixIncrements(nWraps) ==
    IF WRAPHI * nWraps \in -128..127 THEN {WRAPHI * nWraps}
    ELSE {WRAPHI * nWraps, WrapInt(WRAPHI * nWraps)}

\* The set of timestamps the header can hold after the call
FixOverflowTimestamps(ts, fileNameTime, tsOffs) ==
    {[hi |-> (ts.hi + inc) % HI36, lo |-> ts.lo] :
        inc \in FixIncrements(nWrapsOf(ts, fileNameTime, tsOffs))}

\* ------------------------------------------------------------------------
\* SortPhotonTables, on one pixel's table (a sequence, first element at 1)

RECURSIVE FindSlotStrict(_, _, _)
\* FindSlot with > for >=: a photon is moved in front of its equals
FindSlotStrict(t, p, cur) ==
    IF t[p].timestamp > t[cur].timestamp THEN cur + 1
    ELSE IF cur = 1 THEN 1
    ELSE FindSlotStrict(t, p, cur - 1)

RECURSIVE FindSlot(_, _, _)
\* the inner loop: the index photon p of t is to be moved to (p: stays)
FindSlot(t, p, cur) ==
    IF t[p].timestamp >= t[cur].timestamp THEN cur + 1
    ELSE IF cur = 1 THEN 1
    ELSE FindSlot(t, p, cur - 1)

\* the shift loop and the store of photonToSort at slot d
MovePhoton(t, p, d) ==
    [j \in 1..Len(t) |->
        IF j = d THEN t[p]
        ELSE IF j > d /\ j <= p THEN t[j - 1]
        ELSE t[j]]

RECURSIVE SortFrom(_, _, _)
\* the loop over photonToSortAddr, from photon p on; moves counts the element
\* stores made
SortFrom(t, p, moves) ==
    IF p > Len(t) THEN [tbl |-> t, moves |-> moves]
    ELSE LET d == FindSlot(t, p, p - 1)
         IN IF d = p THEN SortFrom(t, p + 1, moves)
            ELSE SortFrom(MovePhoton(t, p, d), p + 1, moves + (p - d) + 1)

SortTable(t) == SortFrom(t, 2, 0)

\* ------------------------------------------------------------------------
\* State of one extract_photons call

VARIABLES
    pc,               \* where the call is: start, read, frame, parse, sort,
                      \* flatten, free, cleanup, done, crashed
    beammap_file,     \* the lines of the beam-map file: [resid, flag, x, y]
    start_timestamp,  \* the caller's arguments
    integration_time,
    tstart,           \* the global tick origin
    BeamMap, BeamFlag,
    DiskBeamMap, DiskBeamMapLen,
    ptable,           \* [x][y]: the photons written to the pixel's buffer
    ptcap,            \* [x][y]: the photons the buffer has room for (0: the
                      \* pointer was never set)
    ptablect,         \* [x][y]: the pixel's fill count
    frees,            \* [x][y]: the calls of free() on the pixel's pointer
    iFile,            \* i of the loop over the files
    data,             \* the words of the file being parsed
    hdrSet,           \* whether firstHeader and pstart were ever assigned
    firstHeader, pstart, k,
    packet, l,        \* ParseToMem's arguments: the scratch buffer's words, l
    otable, nPhot, ret,
    ub,               \* the memory errors made so far
    handed,           \* history: the packets handed to ParseToMem from this file
    log,              \* history: the photons appended, in order, as <<x, y, photon>>
    grown             \* history: the reallocs, as <<x, y, fill count, new room>>

vars == <<pc, beammap_file, start_timestamp, integration_time, tstart, BeamMap, BeamFlag,
          DiskBeamMap, DiskBeamMapLen, ptable, ptcap, ptablect, frees, iFile,
          data, hdrSet, firstHeader, pstart, k, packet, l, otable, nPhot,
          ret, ub, handed, log, grown>>

Cols == 0..(bmap_ncol - 1)
Rows == 0..(bmap_nrow - 1)

\* the caller's output capacity
n_max_photons == OutCapacity

\* timegm of Jan 1 00:00 of the year gmtime finds FirstFile in (2017 or 2018)
YearStart(t) == IF t >= TSOFFS THEN TSOFFS ELSE TSOFFS2017

FirstFile == start_timestamp
tsOffs == YearStart(FirstFile)
nFiles == integration_time + 1

\* ------------------------------------------------------------------------
\* Inputs

\* beam-map lines: a good pixel at (0,0), a good pixel with ResID 0 at (1,0)
BeamLines == {[resid |-> 5, flag |-> 0, x |-> 0, y |-> 0],
              [resid |-> 0, flag |-> 0, x |-> 1, y |-> 0]}

SeqsUpTo(S, n) == UNION {[1..m -> S] : m \in 0..n}

\* beam-map files: at least one line, no more lines than DiskBeamMap has rows
BeamFiles ==
    SeqsUpTo(BeamLines, IF MaxBeamLines < bmap_ncol * bmap_nrow
                        THEN MaxBeamLines ELSE bmap_ncol * bmap_nrow) \ {<<>>}

\* the run reads one file, or asks for more than the 1800 files allowed
IntegrationTimes == {0, MAXFILES}

Ts(n) == [hi |-> 0, lo |-> n]

\* a header 3 ticks after the run's start, a header 1 tick before it, a
\* photon at (0,0) and one at (1,0)
Words == {Hdr(Ts(StartSec * TICKS + 3)), Hdr(Ts(StartSec * TICKS - 1)),
          Dat(0, 0, 1), Dat(1, 0, 0)}

Files == SeqsUpTo(Words, MaxWords)

\* ------------------------------------------------------------------------
\* InitializeBeamMap and ParseBeamMapFile

InitializeBeamMap(value) == [x \in Cols |-> [y \in Rows |-> value]]

RECURSIVE ParseBeamMapFile(_, _, _, _, _)
\* The do-while over the lines from line n on.  Each line is stored in
\* DiskBeamMap[count] and written to BeamMap and BeamFlag; the last pass,
\* whose fscanf fails at the end of the file, writes the last line's values
\* again, which changes nothing.
ParseBeamMapFile(lines, n, bm, bf, dbm) ==
    IF n > Len(lines) THEN [BeamMap |-> bm, BeamFlag |-> bf, DiskBeamMap |-> dbm,
                            count |-> Len(lines)]
    ELSE LET ln == lines[n]
         IN ParseBeamMapFile(lines, n + 1,
                [bm EXCEPT ![ln.x][ln.y] = ln.resid],
                [bf EXCEPT ![ln.x][ln.y] = IF ln.flag > 1 THEN 2 ELSE ln.flag],
                [dbm EXCEPT ![n] = ln])

\* ------------------------------------------------------------------------
\* extract_photons up to the loop over the files

Init ==
    /\ pc = "start"
    /\ beammap_file \in BeamFiles
    /\ start_timestamp = TSOFFS + StartSec
    /\ integration_time \in IntegrationTimes
    /\ tstart = 0
    /\ BeamMap = InitializeBeamMap(0)
    /\ BeamFlag = InitializeBeamMap(0)
    /\ DiskBeamMap = <<>>
    /\ DiskBeamMapLen = 0
    /\ ptable = InitializeBeamMap(<<>>)
    /\ ptcap = InitializeBeamMap(0)
    /\ ptablect = InitializeBeamMap(0)
    /\ frees = InitializeBeamMap(0)
    /\ iFile = 0
    /\ data = <<>>
    /\ hdrSet = FALSE
    /\ firstHeader = 0
    /\ pstart = 0
    /\ k = 0
    /\ packet = <<>>
    /\ l = 0
    /\ otable = <<>>
    /\ nPhot = 0
    /\ ret = 0
    /\ ub = {}
    /\ handed = <<>>
    /\ log = <<>>
    /\ grown = <<>>

\* the file-count check fails: return -1
RejectFiles ==
    /\ pc = "start"
    /\ (nFiles < 1 \/ nFiles > MAXFILES)
    /\ pc' = "done"
    /\ ret' = -1
    /\ UNCHANGED <<beammap_file, start_timestamp, integration_time, tstart,
                   BeamMap, BeamFlag, DiskBeamMap, DiskBeamMapLen, ptable, ptcap,
                   ptablect, frees, iFile, data, hdrSet, firstHeader, pstart, k,
                   packet, l, otable, nPhot, ub, handed, log, grown>>

\* the tick origin, the allocations, the beam map and one buffer of 2500
\* photons for every pixel whose BeamMap entry is not the initial value
Setup ==
    /\ pc = "start"
    /\ ~(nFiles < 1 \/ nFiles > MAXFILES)
    /\ tstart' = (FirstFile - tsOffs) * TICKS
    /\ LET zero == [resid |-> 0, flag |-> 0, x |-> 0, y |-> 0]
           bm == ParseBeamMapFile(beammap_file, 1,
                    InitializeBeamMap(beamMapInitVal), InitializeBeamMap(1),
                    [j \in 1..(bmap_ncol * bmap_nrow) |-> zero])
       IN /\ BeamMap' = bm.BeamMap
          /\ BeamFlag' = bm.BeamFlag
          /\ DiskBeamMap' = bm.DiskBeamMap
          /\ DiskBeamMapLen' = bm.count
          /\ ptcap' = [x \in Cols |-> [y \in Rows |->
                          IF bm.BeamMap[x][y] = beamMapInitVal THEN 0 ELSE CHUNK]]
    /\ ptablect' = InitializeBeamMap(0)
    /\ iFile' = 0
    /\ pc' = "read"
    /\ UNCHANGED <<beammap_file, start_timestamp, integration_time, ptable,
                   frees, data, hdrSet, firstHeader, pstart, k, packet, l, otable,
                   nPhot, ret, ub, handed, log, grown>>

\* ------------------------------------------------------------------------
\* The loop over the files: reading a file and framing its packets

inputVars == <<beammap_file, start_timestamp, integration_time>>
mapVars == <<tstart, BeamMap, BeamFlag, DiskBeamMap, DiskBeamMapLen>>
tableVars == <<ptable, ptcap, ptablect, log, grown>>
outVars == <<otable, nPhot, ret, frees>>

mapflag == 1

SetMin(S) == CHOOSE m \in S : \A n \in S : m <= n

\* the word offsets of the header words of a buffer
HeaderOffsets(d) == {j \in 0..(Len(d) - 1) : HdrStart(d[j + 1]) = HDRMARK}

\* Read file FirstFile+i (one of the buffers of S) and find its first header
\* word.  firstHeader and pstart are assigned only when there is one: a file
\* without a header word leaves them as the file before left them, and the
\* first file finds them uninitialised, so that k starts anywhere.
ReadFileFrom(S) ==
    /\ pc = "read"
    /\ \E d \in S :
        /\ data' = d
        /\ IF HeaderOffsets(d) # {}
           THEN /\ firstHeader' = SetMin(HeaderOffsets(d))
                /\ pstart' = SetMin(HeaderOffsets(d))
                /\ hdrSet' = TRUE
                /\ k' = SetMin(HeaderOffsets(d)) + 1
                /\ ub' = ub
           ELSE IF hdrSet
           THEN /\ k' = firstHeader + 1
                /\ UNCHANGED <<firstHeader, pstart, hdrSet, ub>>
           ELSE /\ k' \in 0..Len(d)
                /\ ub' = ub \cup {"read of uninitialised firstHeader"}
                /\ UNCHANGED <<firstHeader, pstart, hdrSet>>
    /\ handed' = <<>>
    /\ pc' = "frame"
    /\ UNCHANGED <<inputVars, mapVars, tableVars, outVars, packet, l, iFile>>

ReadFile == ReadFileFrom(Files)

\* the header words the loop over k has still to meet
HeadersFrom(d, k0) == {j \in HeaderOffsets(d) : j >= k0}

\* the packet ParseToMem can read: the l/8 whole words from word pstart/8 on
PacketWords(d, ps, len) == SubSeq(d, ps \div 8 + 1, ps \div 8 + len \div 8)

\* The loop over k up to the next header word, at k: copy the k*8 - pstart
\* bytes from &data[pstart/8] to the scratch buffer and call ParseToMem on
\* them.
FramePacket ==
    /\ pc = "frame"
    /\ HeadersFrom(data, k) # {}
    /\ LET kh == SetMin(HeadersFrom(data, k))
       IN /\ k' = kh
          /\ packet' = PacketWords(data, pstart, kh * 8 - pstart)
          /\ l' = kh * 8 - pstart
          /\ ub' = IF kh * 8 - pstart > PACKETCAP
                   THEN ub \cup {"write past packet"} ELSE ub
          /\ handed' = Append(handed, [from |-> 8 * (pstart \div 8),
                                       bytes |-> kh * 8 - pstart])
    /\ pc' = "parse"
    /\ UNCHANGED <<inputVars, mapVars, tableVars, outVars, iFile, data, hdrSet,
                   firstHeader, pstart>>

\* The loop over k meets no further header word and ends at the end of the
\* file's buffer: the next file, or the sort after the last.
FrameEnd ==
    /\ pc = "frame"
    /\ HeadersFrom(data, k) = {}
    /\ k' = IF k < Len(data) THEN Len(data) ELSE k
    /\ iFile' = iFile + 1
    /\ pc' = IF iFile + 1 < nFiles THEN "read" ELSE "sort"
    /\ UNCHANGED <<inputVars, mapVars, tableVars, outVars, packet, l, data,
                   hdrSet, firstHeader, pstart, ub, handed>>

\* ------------------------------------------------------------------------
\* ParseToMem

\* back in the framing loop: pstart = k*8, and the loop's k++
ParseReturn ==
    /\ pstart' = k * 8
    /\ k' = k + 1
    /\ pc' = "frame"

\* the packet's first word does not carry the header marker
ParseBadHeader ==
    /\ pc = "parse"
    /\ HdrStart(packet[1]) # HDRMARK
    /\ ParseReturn
    /\ UNCHANGED <<inputVars, mapVars, tableVars, outVars, packet, l, iFile,
                   data, hdrSet, firstHeader, ub, handed>>

\* BaseTime with the early start set to 0 instead of dropped
BaseTimeClamped(hts) == IF TsInt(hts) - tstart < 0 THEN 0 ELSE TsInt(hts) - tstart

\* basetime for a header timestamp as FixOverflowTimestamps left it
BaseTime(hts) == TsInt(hts) - tstart

FixedHeader(w) == FixOverflowTimestamps(HdrTimestamp(w), FirstFile + iFile, tsOffs)

FixUb(w) ==
    IF Cardinality(FixedHeader(w)) > 1 THEN {"int overflow in FixOverflowTimestamps"}
    ELSE {}

\* the header's time is before tstart: "Early Start!", nothing is stored
ParseEarly ==
    /\ pc = "parse"
    /\ HdrStart(packet[1]) = HDRMARK
    /\ \E hts \in FixedHeader(packet[1]) : BaseTime(hts) < 0
    /\ ub' = ub \cup FixUb(packet[1])
    /\ ParseReturn
    /\ UNCHANGED <<inputVars, mapVars, tableVars, outVars, packet, l, iFile,
                   data, hdrSet, firstHeader, handed>>

\* the data word's pixel is outside the beam map, or flagged
Skipped(w) ==
    \/ DataX(w) >= bmap_ncol
    \/ DataY(w) >= bmap_nrow
    \/ (mapflag > 0 /\ BeamFlag[DataX(w)][DataY(w)] > 0)

\* CurSize with the integer quotient ct / 2500 for the ceiling
CurSizeTruncated(ct) == ct \div CHUNK

\* (long) ceil(ct / 2500.0)
CurSize(ct) == (ct + CHUNK - 1) \div CHUNK

\* whether the append at fill count ct calls realloc
Grows(ct) == ct % CHUNK = GROWAT

\* the room of a pixel's buffer after the realloc test at fill count ct
GrownCap(cap, ct) == IF Grows(ct) THEN CHUNK * (CurSize(ct) + 1) ELSE cap

\* realloc keeps what fits the new room; the photon is stored at index ct
StorePhoton(t, cap, ct, ev) ==
    LET kept == IF Len(t) > cap THEN SubSeq(t, 1, cap) ELSE t
    IN IF ct < Len(kept) THEN [kept EXCEPT ![ct + 1] = ev] ELSE Append(kept, ev)

PhotonOf(w, bt) ==
    [resID |-> BeamMap[DataX(w)][DataY(w)],
     timestamp |-> U32(bt * 500 + DataT(w))]

\* One pass of the loop over the data words, on the tables st: skip the
\* word, or grow the pixel's buffer if its fill count asks for it and store
\* the photon.
ParseWord(st, w, bt) ==
    IF Skipped(w) THEN st
    ELSE LET x == DataX(w)
             y == DataY(w)
             ct == st.ptablect[x][y]
             cap == GrownCap(st.ptcap[x][y], ct)
         IN [ptable |-> [st.ptable EXCEPT ![x][y] = StorePhoton(@, cap, ct, PhotonOf(w, bt))],
             ptcap |-> [st.ptcap EXCEPT ![x][y] = cap],
             ptablect |-> [st.ptablect EXCEPT ![x][y] = ct + 1],
             log |-> Append(st.log, <<x, y, PhotonOf(w, bt)>>),
             grown |-> IF Grows(ct) THEN Append(st.grown, <<x, y, ct, cap>>) ELSE st.grown,
             ub |-> st.ub \cup (IF ct >= cap THEN {"write past ptable"} ELSE {})
                          \cup (IF st.ptcap[x][y] = 0
                                THEN {"use of unset ptable pointer"} ELSE {})]

RECURSIVE ParseWords(_, _, _, _)
\* The passes i = a .. b-1 of the loop for(i=1; i<l/8; i++), in this order.
\* The range is halved, and the first half's tables are looked at before the
\* second half starts, only to keep the evaluation shallow.
ParseWords(st, a, b, bt) ==
    IF a >= b THEN st
    ELSE IF b = a + 1 THEN ParseWord(st, packet[a + 1], bt)
    ELSE LET half == ParseWords(st, a, (a + b) \div 2, bt)
         IN IF DOMAIN half = {} THEN half
            ELSE ParseWords(half, (a + b) \div 2, b, bt)

\* the header is accepted: every data word of the packet is decoded
ParseData ==
    /\ pc = "parse"
    /\ HdrStart(packet[1]) = HDRMARK
    /\ \E hts \in FixedHeader(packet[1]) :
        /\ BaseTime(hts) >= 0
        /\ LET st == ParseWords([ptable |-> ptable, ptcap |-> ptcap,
                                 ptablect |-> ptablect, log |-> log, grown |-> grown,
                                 ub |-> ub \cup FixUb(packet[1])],
                                1, l \div 8, BaseTime(hts))
           IN /\ ptable' = st.ptable
              /\ ptcap' = st.ptcap
              /\ ptablect' = st.ptablect
              /\ log' = st.log
              /\ grown' = st.grown
              /\ ub' = st.ub
    /\ ParseReturn
    /\ UNCHANGED <<inputVars, mapVars, outVars, packet, l, iFile, data, hdrSet,
                   firstHeader, handed>>

\* ------------------------------------------------------------------------
\* After the files: sort, flatten, free, return

SortPhotonTables ==
    /\ pc = "sort"
    /\ ptable' = [x \in Cols |-> [y \in Rows |->
                     SortTable(SubSeq(ptable[x][y], 1, ptablect[x][y])).tbl]]
    /\ pc' = "flatten"
    /\ UNCHANGED <<inputVars, mapVars, ptcap, ptablect, log, grown, outVars, packet, l,
                   iFile, data, hdrSet, firstHeader, pstart, k, ub, handed>>

RECURSIVE FlattenFrom(_, _)
\* the loop over j < beamCols*beamRows from row j of DiskBeamMap on, out
\* being otable[0..nPhot-1]
FlattenFrom(j, out) ==
    IF j > bmap_ncol * bmap_nrow THEN out
    ELSE LET x == DiskBeamMap[j].x
             y == DiskBeamMap[j].y
         IN IF BeamMap[x][y] = beamMapInitVal \/ ptablect[x][y] = 0
            THEN FlattenFrom(j + 1, out)
            ELSE FlattenFrom(j + 1, out \o SubSeq(ptable[x][y], 1, ptablect[x][y]))

Flatten ==
    /\ pc = "flatten"
    /\ otable' = FlattenFrom(1, <<>>)
    /\ nPhot' = Len(FlattenFrom(1, <<>>))
    /\ ub' = IF Len(FlattenFrom(1, <<>>)) > n_max_photons
             THEN ub \cup {"write past otable"} ELSE ub
    /\ pc' = "free"
    /\ UNCHANGED <<inputVars, mapVars, tableVars, ret, frees, packet, l, iFile,
                   data, hdrSet, firstHeader, pstart, k, handed>>

\* free(ptable[i][j]) for every pixel whose BeamMap entry is not 0
FreeTables ==
    /\ pc = "free"
    /\ frees' = [x \in Cols |-> [y \in Rows |->
                    IF BeamMap[x][y] = 0 THEN frees[x][y] ELSE frees[x][y] + 1]]
    /\ ub' = IF \E x \in Cols, y \in Rows : BeamMap[x][y] # 0 /\ ptcap[x][y] = 0
             THEN ub \cup {"free of unset ptable pointer"} ELSE ub
    /\ pc' = "cleanup"
    /\ UNCHANGED <<inputVars, mapVars, tableVars, otable, nPhot, ret, packet, l,
                   iFile, data, hdrSet, firstHeader, pstart, k, handed>>

\* the remaining frees and return nPhot
Return ==
    /\ pc = "cleanup"
    /\ ret' = nPhot
    /\ pc' = "done"
    /\ UNCHANGED <<inputVars, mapVars, tableVars, otable, nPhot, frees, packet, l,
                   iFile, data, hdrSet, firstHeader, pstart, k, ub, handed>>

\* after a memory error the process may stop at any point
Crash ==
    /\ ub # {}
    /\ pc \in {"read", "frame", "parse", "sort", "flatten", "free", "cleanup"}
    /\ pc' = "crashed"
    /\ UNCHANGED <<inputVars, mapVars, tableVars, outVars, packet, l, iFile,
                   data, hdrSet, firstHeader, pstart, k, ub, handed>>

Next ==
    \/ RejectFiles
    \/ Setup
    \/ ReadFile
    \/ FramePacket
    \/ FrameEnd
    \/ ParseBadHeader
    \/ ParseEarly
    \/ ParseData
    \/ SortPhotonTables
    \/ Flatten
    \/ FreeTables
    \/ Return
    \/ Crash

Spec == Init /\ [][Next]_vars

\* ------------------------------------------------------------------------
\* Properties of the framing, the output and the buffers (under Spec)

Pixels == Cols \X Rows

RECURSIVE SumCounts(_)
SumCounts(S) ==
    IF S = {} THEN 0
    ELSE LET p == CHOOSE q \in S : TRUE
         IN ptablect[p[1]][p[2]] + SumCounts(S \ {p})

\* the events decoded into all the per-pixel buffers
TotalEvents == SumCounts(Pixels)

\* the word offset where the packet that starts at header h ends
PacketEnd(d, h) ==
    IF \E g \in HeaderOffsets(d) : g > h
    THEN SetMin({g \in HeaderOffsets(d) : g > h})
    ELSE Len(d)

\* the header-delimited packets of a buffer, the last one running to its end
FramedPackets(d) ==
    {[from |-> 8 * h, bytes |-> 8 * (PacketEnd(d, h) - h)] : h \in HeaderOffsets(d)}

HandedSet == {handed[n] : n \in 1..Len(handed)}

GoodHeader == Hdr(Ts(StartSec * TICKS + 3))
EarlyHeader == Hdr(Ts(StartSec * TICKS - 1))

\* C1: once a file that holds a header word is framed, every header-delimited
\* packet of it, the one from the last header to the end of the buffer
\* included, was handed to ParseToMem; and the run over the one file
\* <<header, photon at (0,0), photon at (1,0)>>, both pixels good, returns 2.
C1_EveryPacketHanded ==
    /\ (pc \in {"read", "sort"} /\ iFile > 0 /\ HeaderOffsets(data) # {})
          => FramedPackets(data) \subseteq HandedSet
    /\ (/\ pc = "done"
        /\ ret # -1
        /\ nFiles = 1
        /\ data = <<GoodHeader, Dat(0, 0, 1), Dat(1, 0, 0)>>
        /\ BeamFlag[0][0] = 0
        /\ BeamFlag[1][0] = 0)
          => ret = 2

\* C2: the first packet handed to ParseToMem starts at the file's first
\* header word f (byte 8*f) and ends just before the next header word.
C2_FirstPacketAtFirstHeader ==
    handed # <<>> =>
        LET f == SetMin(HeaderOffsets(data))
        IN handed[1] = [from |-> 8 * f, bytes |-> 8 * (PacketEnd(data, f) - f)]

\* C3: nothing is written to otable at an index >= n_max_photons, and a run
\* that decoded more than n_max_photons events returns a negative value.
C3_OutputCapacityRespected ==
    /\ Len(otable) <= n_max_photons
    /\ (pc = "done" /\ TotalEvents > n_max_photons) => ret < 0

RECURSIVE FlatInFileOrder(_, _, _)
\* each mapped, non-empty pixel's photons once, the pixels as the lines of
\* the beam-map file first name them
FlatInFileOrder(n, seen, out) ==
    IF n > Len(beammap_file) THEN out
    ELSE LET x == beammap_file[n].x
             y == beammap_file[n].y
         IN IF <<x, y>> \in seen \/ BeamMap[x][y] = beamMapInitVal \/ ptablect[x][y] = 0
            THEN FlatInFileOrder(n + 1, seen, out)
            ELSE FlatInFileOrder(n + 1, seen \cup {<<x, y>>},
                                 out \o SubSeq(ptable[x][y], 1, ptablect[x][y]))

\* C4: the output holds each mapped, non-empty pixel's events exactly once, in
\* the order of the beam-map file, and the count returned is the sum of the
\* per-pixel fill counts.
C4_FlattenedOnceInFileOrder ==
    (pc = "done" /\ ret # -1) =>
        /\ otable = FlatInFileOrder(1, {}, <<>>)
        /\ ret = TotalEvents

\* the packet ParseToMem was just called on carries a good marker and a
\* timestamp that is, after FixOverflowTimestamps, before tstart
EarlyPacket ==
    /\ pc = "parse"
    /\ HdrStart(packet[1]) = HDRMARK
    /\ \A hts \in FixedHeader(packet[1]) : TsInt(hts) < tstart

\* C7: ParseToMem on a packet whose corrected header timestamp is before
\* tstart appends nothing (every buffer and fill count stays as it is) and
\* returns to the framing loop, which goes on with the next word.
C7_EarlyPacketDropped ==
    [][(EarlyPacket /\ pc' # "crashed") =>
          /\ ptable' = ptable
          /\ ptablect' = ptablect
          /\ ptcap' = ptcap
          /\ log' = log
          /\ grown' = grown
          /\ pc' = "frame"
          /\ pstart' = 8 * k
          /\ k' = k + 1]_vars

\* an early packet with a data word was handed over, and a later packet of
\* the same file has stored a photon
C7_Witness ==
    /\ Len(handed) >= 2
    /\ handed[1].bytes >= 16
    /\ HdrStart(data[handed[1].from \div 8 + 1]) = HDRMARK
    /\ TsInt(HdrTimestamp(data[handed[1].from \div 8 + 1])) < tstart
    /\ ~IsHdrWord(data[handed[1].from \div 8 + 2])
    /\ BeamFlag[DataX(data[handed[1].from \div 8 + 2])][DataY(data[handed[1].from \div 8 + 2])] = 0
    /\ iFile = 0
    /\ log # <<>>

\* C10: no pixel without a buffer is ever appended to or freed, and when the
\* call returns every buffer that was allocated has been freed exactly once.
C10_BuffersReleasedOnce ==
    /\ "use of unset ptable pointer" \notin ub
    /\ \A p \in Pixels : ptcap[p[1]][p[2]] = 0 => frees[p[1]][p[2]] = 0
    /\ (pc = "done" /\ ret # -1) =>
          \A p \in Pixels : ptcap[p[1]][p[2]] > 0 => frees[p[1]][p[2]] = 1

\* ------------------------------------------------------------------------
\* Long packets and full buffers: one file of packets of photons at (0,0)

\* the words the scratch buffer packet[808*16] holds
FullPacket == PACKETCAP \div 8

\* p packets, the first p-1 of FullPacket words (header and data), the last
\* of 1 + m words, closed by a header word; data word j carries the
\* sub-timestamp j % 512
BulkFile(p, m) ==
    [n \in 1..((p - 1) * FullPacket + m + 2) |->
        LET j == n - 1
        IN IF \/ (j < (p - 1) * FullPacket /\ j % FullPacket = 0)
              \/ j = (p - 1) * FullPacket
              \/ j = (p - 1) * FullPacket + m + 1
           THEN Hdr(Ts(StartSec * TICKS + 3))
           ELSE Dat(0, 0, j % 512)]

\* the last packet's data words: none; just short of, at and past the first
\* realloc when it is the second packet; those that bring the fifth packet
\* to 3 * 2500 - 1 photons; a full scratch buffer; one word more
BulkLasts == {0, GROWAT - FullPacket, GROWAT + 1 - FullPacket, GROWAT + 2 - FullPacket,
              GROWAT + 3 - FullPacket, 3 * CHUNK - 1 - 4 * (FullPacket - 1),
              FullPacket - 1, FullPacket}

BulkFiles == {BulkFile(p, m) : p \in 1..MaxBulkPackets, m \in BulkLasts}

FullBeamFile == <<[resid |-> 5, flag |-> 0, x |-> 0, y |-> 0],
                  [resid |-> 0, flag |-> 0, x |-> 1, y |-> 0]>>

InitBulk ==
    /\ Init
    /\ beammap_file = FullBeamFile
    /\ integration_time = 0

ReadBulkFile == ReadFileFrom(BulkFiles)

NextBulk ==
    \/ Setup
    \/ ReadBulkFile
    \/ FramePacket
    \/ FrameEnd
    \/ ParseData
    \/ Crash

SpecBulk == InitBulk /\ [][NextBulk]_vars

\* the photons appended to pixel (x, y), in the order of the appends
PixelLog(x, y) ==
    LET sel == SelectSeq(log, LAMBDA e : e[1] = x /\ e[2] = y)
    IN [n \in 1..Len(sel) |-> sel[n][3]]

\* the reallocs of the buffer of (x, y), as <<fill count, new room>>
PixelGrowths(x, y) ==
    LET sel == SelectSeq(grown, LAMBDA e : e[1] = x /\ e[2] = y)
    IN [n \in 1..Len(sel) |-> <<sel[n][3], sel[n][4]>>]

\* ------------------------------------------------------------------------
\* The sort on arbitrary tables: the call has decoded a sequence of photons
\* into pixel (0,0) and is about to call SortPhotonTables

SortPhotons == {[resID |-> 5, timestamp |-> t] : t \in 0..MaxSortTs}

LoadedMap ==
    ParseBeamMapFile(FullBeamFile, 1, InitializeBeamMap(beamMapInitVal),
        InitializeBeamMap(1),
        [j \in 1..(bmap_ncol * bmap_nrow) |-> [resid |-> 0, flag |-> 0, x |-> 0, y |-> 0]])

InitSort ==
    /\ pc = "sort"
    /\ beammap_file = FullBeamFile
    /\ start_timestamp = TSOFFS + StartSec
    /\ integration_time = 0
    /\ tstart = StartSec * TICKS
    /\ BeamMap = LoadedMap.BeamMap
    /\ BeamFlag = LoadedMap.BeamFlag
    /\ DiskBeamMap = LoadedMap.DiskBeamMap
    /\ DiskBeamMapLen = LoadedMap.count
    /\ \E t \in SeqsUpTo(SortPhotons, MaxSortLen) :
        /\ ptable = [InitializeBeamMap(<<>>) EXCEPT ![0][0] = t]
        /\ ptablect = [InitializeBeamMap(0) EXCEPT ![0][0] = Len(t)]
        /\ log = [n \in 1..Len(t) |-> <<0, 0, t[n]>>]
    /\ grown = <<>>
    /\ ptcap = [x \in Cols |-> [y \in Rows |->
                   IF LoadedMap.BeamMap[x][y] = beamMapInitVal THEN 0 ELSE CHUNK]]
    /\ frees = InitializeBeamMap(0)
    /\ iFile = 1
    /\ data = <<>>
    /\ hdrSet = FALSE
    /\ firstHeader = 0
    /\ pstart = 0
    /\ k = 0
    /\ packet = <<>>
    /\ l = 0
    /\ otable = <<>>
    /\ nPhot = 0
    /\ ret = 0
    /\ ub = {}
    /\ handed = <<>>

NextSort ==
    \/ SortPhotonTables
    \/ Flatten
    \/ FreeTables
    \/ Return
    \/ Crash

SpecSort == InitSort /\ [][NextSort]_vars

\* ------------------------------------------------------------------------
\* FixOverflowTimestamps on arbitrary headers: ParseToMem has read a header
\* word and calls FixOverflowTimestamps(hdr, FirstFile + iFile, tsOffs)

\* seconds into the year of the file's name
FixSecs == {0, StartSec, PERIOD - FUDGE - 1, PERIOD - FUDGE, 2 * PERIOD - FUDGE,
            3 * PERIOD, 30 * PERIOD}

FixHis == {0, 1, WRAPHI - 1, WRAPHI, 2 * WRAPHI, HI36 - WRAPHI, HI36 - 1}

FixLos == {0, TICKS - 1, TICKS, T24 - 1}

InitFix ==
    /\ pc = "fix"
    /\ beammap_file = FullBeamFile
    /\ start_timestamp \in {TSOFFS + sec : sec \in FixSecs}
    /\ integration_time = 0
    /\ tstart = 0
    /\ BeamMap = LoadedMap.BeamMap
    /\ BeamFlag = LoadedMap.BeamFlag
    /\ DiskBeamMap = LoadedMap.DiskBeamMap
    /\ DiskBeamMapLen = LoadedMap.count
    /\ ptable = InitializeBeamMap(<<>>)
    /\ ptablect = InitializeBeamMap(0)
    /\ log = <<>>
    /\ grown = <<>>
    /\ ptcap = InitializeBeamMap(CHUNK)
    /\ frees = InitializeBeamMap(0)
    /\ iFile = 0
    /\ \E hi \in FixHis, lo \in FixLos :
        /\ data = <<Hdr([hi |-> hi, lo |-> lo])>>
        /\ packet = <<Hdr([hi |-> hi, lo |-> lo])>>
    /\ hdrSet = TRUE
    /\ firstHeader = 0
    /\ pstart = 0
    /\ k = 1
    /\ l = 8
    /\ otable = <<>>
    /\ nPhot = 0
    /\ ret = 0
    /\ ub = {}
    /\ handed = <<>>

\* the call: hdr->timestamp is rewritten in place
FixHeader ==
    /\ pc = "fix"
    /\ \E hts \in FixedHeader(packet[1]) :
        packet' = <<[packet[1] EXCEPT !.timestamp = hts]>>
    /\ ub' = ub \cup FixUb(packet[1])
    /\ pc' = "fixed"
    /\ UNCHANGED <<inputVars, mapVars, tableVars, outVars, l, iFile,
                   data, hdrSet, firstHeader, pstart, k, handed>>

NextFix == FixHeader

SpecFix == InitFix /\ [][NextFix]_vars

\* ------------------------------------------------------------------------
\* Properties of the buffers and the scratch packet (under SpecBulk)

\* C6: a pixel's buffer has room for a positive multiple of 2500 photons;
\* its n-th realloc is made by the append at fill count 2500 * n - 2 and
\* makes room for 2500 * (n + 1), and there is no other (so that the room at
\* fill count ct is 2500 * (1 + (ct + 1) \div 2500)); no append writes at or
\* past the room; and until the sort the buffer holds the photons appended
\* to the pixel, in the order of the appends.
C6_ChunkedGrowth ==
    /\ \A p \in Pixels :
        /\ ptcap[p[1]][p[2]] > 0 =>
              ptcap[p[1]][p[2]] = CHUNK * (1 + (ptablect[p[1]][p[2]] + 1) \div CHUNK)
        /\ Len(PixelGrowths(p[1], p[2])) = (ptablect[p[1]][p[2]] + 1) \div CHUNK
        /\ \A n \in 1..Len(PixelGrowths(p[1], p[2])) :
              PixelGrowths(p[1], p[2])[n] = <<CHUNK * n - 2, CHUNK * (n + 1)>>
        /\ Len(ptable[p[1]][p[2]]) = ptablect[p[1]][p[2]]
        /\ pc \in {"read", "frame", "parse", "sort"} =>
              ptable[p[1]][p[2]] = PixelLog(p[1], p[2])
    /\ "write past ptable" \notin ub

\* 3 * 2500 - 1 photons were appended to (0,0), whose buffer has grown
\* three times and holds them all
C6_Witness ==
    /\ pc = "sort"
    /\ ptablect[0][0] = 3 * CHUNK - 1
    /\ ptcap[0][0] = 4 * CHUNK
    /\ Len(PixelGrowths(0, 0)) = 3
    /\ ptable[0][0] = PixelLog(0, 0)

\* C9: no packet handed to ParseToMem was copied into the scratch buffer
\* with more bytes than the buffer's 808*16.
C9_PacketFitsScratch ==
    \A n \in 1..Len(handed) : handed[n].bytes <= PACKETCAP

\* ------------------------------------------------------------------------
\* Properties of the sort (under SpecSort)

Sorted(t) == \A n \in 1..(Len(t) - 1) : t[n].timestamp <= t[n + 1].timestamp

Occurrences(t, ph) == Cardinality({n \in 1..Len(t) : t[n] = ph})

SamePhotons(t, u) ==
    /\ Len(t) = Len(u)
    /\ \A ph \in {t[n] : n \in 1..Len(t)} \cup {u[n] : n \in 1..Len(u)} :
          Occurrences(t, ph) = Occurrences(u, ph)

\* C5: after SortPhotonTables a pixel's table is non-decreasing in timestamp
\* and holds the photons it held before, each as often; a table that was
\* non-decreasing already is left as it was, with no element stored.
C5_SortedPermutation ==
    pc # "sort" =>
        \A p \in Pixels :
            /\ Sorted(ptable[p[1]][p[2]])
            /\ SamePhotons(ptable[p[1]][p[2]], PixelLog(p[1], p[2]))
            /\ Sorted(PixelLog(p[1], p[2])) =>
                  /\ ptable[p[1]][p[2]] = PixelLog(p[1], p[2])
                  /\ SortTable(PixelLog(p[1], p[2])).moves = 0

\* a table of the greatest length, with a descent and a pair of equal
\* neighbours, has been sorted
C5_Witness ==
    /\ pc = "flatten"
    /\ Len(log) = MaxSortLen
    /\ \E n \in 1..(Len(log) - 1) : log[n][3].timestamp > log[n + 1][3].timestamp
    /\ \E n \in 1..(Len(log) - 1) : log[n][3].timestamp = log[n + 1][3].timestamp
    /\ Sorted(ptable[0][0])

\* ------------------------------------------------------------------------
\* Properties of the timestamp correction (under SpecFix)

\* floor((s - yearEpochOffset - t/2000 + 3) / 1048576) for the header read
FloorWraps ==
    (FirstFile + iFile - tsOffs - Div2000(HdrTimestamp(data[1])) + FUDGE) \div PERIOD

\* C8: FixOverflowTimestamps leaves t + 2000 * wraps * 1048576 in the header,
\* wraps = floor((s - yearEpochOffset - t/2000 + 3) / 1048576), as exact
\* integers.
C8_ExactWrapCorrection ==
    pc = "fixed" =>
        packet[1].timestamp = [hi |-> HdrTimestamp(data[1]).hi + WRAPHI * FloorWraps,
                               lo |-> HdrTimestamp(data[1]).lo]

====
